---- MODULE Spec2Model ----
(***************************************************************************)
(* Model of the ball-tracking physics core of cricket_app                  *)
(* (src/src/services/physics.ts): predictTrajectory, which extrapolates a  *)
(* tracked ball under gravity and bounce, and checkWicketImpact, which     *)
(* decides whether a path crosses the wicket and which part it strikes;    *)
(* and of generateSimulatedData of the component that calls them           *)
(* (src/src/components/TrajectoryView.tsx), which builds the displayed     *)
(* trajectory and stores the verdict.                                      *)
(*                                                                         *)
(* Numbers.  A JavaScript number is modelled as a pair <<n, d>>, the exact *)
(* rational n/d in lowest terms with d > 0, extended with the three IEEE   *)
(* specials the code can produce by dividing by zero: <<1, 0>> is          *)
(* +Infinity, <<-1, 0>> is -Infinity and <<0, 0>> is NaN.  Arithmetic and  *)
(* comparisons follow IEEE 754 on these values (a comparison with NaN is   *)
(* false, Infinity - Infinity and 0 * Infinity are NaN, x / 0 is an        *)
(* infinity or NaN).  Rounding of finite results and the sign of zero are  *)
(* not modelled: finite arithmetic is exact.  Lengths are in metres and    *)
(* times in seconds, as in the source.                                     *)
(***************************************************************************)
EXTENDS Integers, Sequences, FiniteSets, TLC

VARIABLES
    points,          \* checkWicketImpact: its argument
    i,               \* checkWicketImpact: the for loop's index (0-based)
    cpc,             \* checkWicketImpact: "loop" | "returned"
    ret,             \* checkWicketImpact: the returned object
    zeroDiv,         \* checkWicketImpact: segments (by index) whose ratio was
                     \*   evaluated with a zero divisor
    history,         \* predictTrajectory: its argument `points`
    predictionTime,  \* predictTrajectory: its argument
    step,            \* predictTrajectory: its argument
    ppc,             \* predictTrajectory: "entry" | "loop" | "returned"
    vel,             \* predictTrajectory: the constants vx, vy, vz
    currentTime, currX, currY, currZ, currVy,   \* predictTrajectory: its lets
    predictions,     \* predictTrajectory: the array it builds and returns
    bounces,         \* predictTrajectory: the iterations that took the
                     \*   bounce branch, with vy and y as they entered it
    viewPoints,      \* TrajectoryView: the state `points`
    viewPredictions, \* TrajectoryView: the state `predictions`
    impact,          \* TrajectoryView: the state `impact`
    speed,           \* TrajectoryView: the state `speed`
    analysis,        \* generateSimulatedData: its argument
    gpc,             \* generateSimulatedData: "entry" | "loop" | "returned"
    sim,             \* generateSimulatedData: its consts duration, dt, vx, vz
                     \*   and its lets x, y, z, vy, i
    newPoints,       \* generateSimulatedData: the array it builds
    pixelX, pixelY, frameWidth, frameHeight, time,   \* reconstruct3D: its
                     \*   arguments
    rpc,             \* reconstruct3D: "idle" | "entry" | "returned"
    sample,          \* reconstruct3D: the object it returns
    videoFile,       \* App: the dropped file, or Null
    videoUrl,        \* App: its object URL, or Null
    isProcessing,    \* App: state
    processingStep,  \* App: state, the message of the running step
    decisionState,   \* App: state, "none" | "analyzing" | "verdict"
    spc,             \* startProcessing: where the pending call waits
    pending,         \* startProcessing: const analysis
    stepIdx,         \* startProcessing: index of the for loop over steps
    lastHandler,     \* history: the handler the user ran last
    runs             \* history: number of calls of startProcessing

impactVars == <<points, i, cpc, ret, zeroDiv>>
predictVars == <<history, predictionTime, step, ppc, vel,
                 currentTime, currX, currY, currZ, currVy, predictions,
                 bounces>>
viewVars == <<viewPoints, viewPredictions, impact, speed,
              analysis, gpc, sim, newPoints>>
reconVars == <<pixelX, pixelY, frameWidth, frameHeight, time, rpc, sample>>
procVars == <<videoFile, videoUrl, isProcessing, processingStep,
              decisionState, spc, pending, stepIdx, lastHandler, runs>>
vars == <<impactVars, predictVars, viewVars, reconVars, procVars>>

\* null (of impact), null of a number (of speed), and an argument not given.
Null == [null |-> TRUE]
NullNumber == <<>>
Undefined == [undefined |-> TRUE]

\* The component's state as useState creates it.
ViewState ==
    /\ viewPoints = <<>>
    /\ viewPredictions = <<>>
    /\ impact = Null
    /\ speed = NullNumber

\* The component, with no call of generateSimulatedData.
ViewIdle ==
    /\ ViewState
    /\ analysis = Undefined
    /\ gpc = "idle"
    /\ sim = Null
    /\ newPoints = <<>>

\* No call of reconstruct3D.
ReconIdle ==
    /\ pixelX = <<0, 1>>
    /\ pixelY = <<0, 1>>
    /\ frameWidth = <<0, 1>>
    /\ frameHeight = <<0, 1>>
    /\ time = <<0, 1>>
    /\ rpc = "idle"
    /\ sample = Null

\* The App as mounted: no video, nothing running.
ProcIdle ==
    /\ videoFile = Null
    /\ videoUrl = Null
    /\ isProcessing = FALSE
    /\ processingStep = ""
    /\ decisionState = "none"
    /\ spc = "idle"
    /\ pending = Undefined
    /\ stepIdx = 0
    /\ lastHandler = "none"
    /\ runs = 0

----------------------------------------------------------------------------
(* JavaScript numbers *)

AbsInt(k) == IF k < 0 THEN -k ELSE k

SignInt(k) == IF k < 0 THEN -1 ELSE IF k > 0 THEN 1 ELSE 0

RECURSIVE GCD(_, _)
GCD(a, b) == IF b = 0 THEN a ELSE GCD(b, a % b)

\* n/d brought to the canonical pair: d >= 0, lowest terms, specials as above.
Norm(n, d) ==
    IF d = 0 THEN <<SignInt(n), 0>>
    ELSE LET g == GCD(AbsInt(n), AbsInt(d))
             s == SignInt(d)
         IN  <<(s * n) \div g, (s * d) \div g>>

Num(k) == <<k, 1>>
NaN == <<0, 0>>
IsNaN(a) == a[2] = 0 /\ a[1] = 0
IsInf(a) == a[2] = 0 /\ a[1] # 0
IsFinite(a) == a[2] > 0

Neg(a) == <<-a[1], a[2]>>

Add(a, b) ==
    IF IsNaN(a) \/ IsNaN(b) THEN NaN
    ELSE IF IsInf(a) THEN (IF IsInf(b) /\ b[1] # a[1] THEN NaN ELSE a)
    ELSE IF IsInf(b) THEN b
    ELSE LET g == GCD(a[2], b[2])
         IN  Norm(a[1] * (b[2] \div g) + b[1] * (a[2] \div g),
                  (a[2] \div g) * b[2])

Sub(a, b) == Add(a, Neg(b))

Mul(a, b) ==
    IF IsNaN(a) \/ IsNaN(b) THEN NaN
    ELSE IF a[2] = 0 \/ b[2] = 0 THEN Norm(a[1] * b[1], a[2] * b[2])
    ELSE LET g == GCD(AbsInt(a[1]), b[2])
             h == GCD(AbsInt(b[1]), a[2])
         IN  Norm((a[1] \div g) * (b[1] \div h), (a[2] \div h) * (b[2] \div g))

\* 1/a: 1/0 is +Infinity, 1/Infinity is 0.
Inv(a) ==
    IF IsNaN(a) THEN NaN
    ELSE IF IsInf(a) THEN Num(0)
    ELSE IF a[1] = 0 THEN <<1, 0>>
    ELSE Norm(a[2], a[1])

Div(a, b) == Mul(a, Inv(b))

MathAbs(a) == <<AbsInt(a[1]), a[2]>>

\* a1/a2 <= b1/b2 for a2, b2 > 0, by whole parts and then the remainders'
\* reciprocals, so that no product is formed.
RECURSIVE LeFrac(_, _, _, _)
LeFrac(a1, a2, b1, b2) ==
    IF a1 \div a2 # b1 \div b2 THEN a1 \div a2 < b1 \div b2
    ELSE IF a1 % a2 = 0 THEN TRUE
    ELSE IF b1 % b2 = 0 THEN FALSE
    ELSE LeFrac(b2, b1 % b2, a2, a1 % a2)

\* a <= b and a < b; false when either is NaN.
Le(a, b) ==
    /\ ~IsNaN(a) /\ ~IsNaN(b)
    /\ IF IsInf(a) /\ IsInf(b) THEN a[1] <= b[1]
       ELSE IF IsInf(a) THEN a[1] < 0
       ELSE IF IsInf(b) THEN b[1] > 0
       ELSE LeFrac(a[1], a[2], b[1], b[2])

Lt(a, b) ==
    /\ ~IsNaN(a) /\ ~IsNaN(b)
    /\ ~Le(b, a)

Ge(a, b) == Le(b, a)
Gt(a, b) == Lt(b, a)

----------------------------------------------------------------------------
(* Constants of physics.ts *)

PITCH_LENGTH == <<503, 25>>       \* 20.12
STUMP_HEIGHT == <<711, 1000>>     \* 0.711
STUMP_WIDTH == <<1143, 5000>>     \* 0.2286
STUMP_RADIUS == <<19, 1000>>      \* 0.019
BAIL_HEIGHT == <<13, 1000>>       \* 0.013
GRAVITY == <<981, 100>>           \* 9.81

----------------------------------------------------------------------------
(* checkWicketImpact(points) *)

\* CrossesPlane with the first test's && slipped to ||.
CrossesPlaneEither(p1, p2) ==
    \/ (Le(p1.z, PITCH_LENGTH) \/ Ge(p2.z, PITCH_LENGTH))
    \/ (Ge(p1.z, PITCH_LENGTH) /\ Le(p2.z, PITCH_LENGTH))

\* CrossesPlane with strict comparisons.
CrossesPlaneStrict(p1, p2) ==
    \/ (Lt(p1.z, PITCH_LENGTH) /\ Gt(p2.z, PITCH_LENGTH))
    \/ (Gt(p1.z, PITCH_LENGTH) /\ Lt(p2.z, PITCH_LENGTH))

\* The plane test of the segment p1 -> p2: z = PITCH_LENGTH lies between the
\* endpoints, in either direction, endpoints included.
CrossesPlane(p1, p2) ==
    \/ (Le(p1.z, PITCH_LENGTH) /\ Ge(p2.z, PITCH_LENGTH))
    \/ (Ge(p1.z, PITCH_LENGTH) /\ Le(p2.z, PITCH_LENGTH))

\* The divisor of ratio.
SegmentDz(p1, p2) == MathAbs(Sub(p2.z, p1.z))

\* Ratio measured from the segment's far endpoint.
RatioFromP2(p1, p2) ==
    Div(MathAbs(Sub(PITCH_LENGTH, p2.z)), SegmentDz(p1, p2))

Ratio(p1, p2) == Div(MathAbs(Sub(PITCH_LENGTH, p1.z)), SegmentDz(p1, p2))

ImpactX(p1, p2) == Add(p1.x, Mul(Sub(p2.x, p1.x), Ratio(p1, p2)))

ImpactY(p1, p2) == Add(p1.y, Mul(Sub(p2.y, p1.y), Ratio(p1, p2)))

\* InWidth with the limit excluded.
InWidthStrict(impactX) ==
    Lt(MathAbs(impactX), Add(Div(STUMP_WIDTH, Num(2)), STUMP_RADIUS))

InWidth(impactX) ==
    Le(MathAbs(impactX), Add(Div(STUMP_WIDTH, Num(2)), STUMP_RADIUS))

InHeight(impactY) ==
    Ge(impactY, Num(0)) /\ Le(impactY, Add(STUMP_HEIGHT, BAIL_HEIGHT))

OffStumpX == Div(STUMP_WIDTH, Num(2))
LegStumpX == Div(Neg(STUMP_WIDTH), Num(2))
StumpTolerance == Mul(STUMP_RADIUS, <<3, 2>>)

\* PartHit testing the stumps before the bails.
PartHitLateralFirst(impactX, impactY) ==
    IF Le(MathAbs(Sub(impactX, OffStumpX)), StumpTolerance) THEN "off"
    ELSE IF Le(MathAbs(Sub(impactX, LegStumpX)), StumpTolerance) THEN "leg"
    ELSE IF Gt(impactY, STUMP_HEIGHT) THEN "bails"
    ELSE "middle"

\* PartHit without its final else: partHit keeps its initial 'none'.
PartHitNoDefault(impactX, impactY) ==
    IF Gt(impactY, STUMP_HEIGHT) THEN "bails"
    ELSE IF Le(MathAbs(Sub(impactX, OffStumpX)), StumpTolerance) THEN "off"
    ELSE IF Le(MathAbs(Sub(impactX, LegStumpX)), StumpTolerance) THEN "leg"
    ELSE IF Le(MathAbs(impactX), StumpTolerance) THEN "middle"
    ELSE "none"

PartHit(impactX, impactY) ==
    IF Gt(impactY, STUMP_HEIGHT) THEN "bails"
    ELSE IF Le(MathAbs(Sub(impactX, OffStumpX)), StumpTolerance) THEN "off"
    ELSE IF Le(MathAbs(Sub(impactX, LegStumpX)), StumpTolerance) THEN "leg"
    ELSE IF Le(MathAbs(impactX), StumpTolerance) THEN "middle"
    ELSE "middle"

\* The object returned from inside the loop, and the one returned after it
\* (which has no impactPoint key).
HitResult(p1, p2) ==
    [isHit |-> TRUE,
     impactPoint |-> [x |-> ImpactX(p1, p2), y |-> ImpactY(p1, p2),
                      z |-> PITCH_LENGTH],
     partHit |-> PartHit(ImpactX(p1, p2), ImpactY(p1, p2))]

MissResult == [isHit |-> FALSE, partHit |-> "none"]

NoResult == [returned |-> FALSE]

\* The for loop's condition, i < points.length - 1.
ImpactLoopCond == i < Len(points) - 1

\* ImpactIteration deciding on the first crossing segment: a crossing point
\* that fails the hit test ends the scan with the miss result.
ImpactIterationFirstCrossing ==
    /\ cpc = "loop"
    /\ ImpactLoopCond
    /\ LET p1 == points[i + 1]
           p2 == points[i + 2]
       IN  /\ zeroDiv' = IF CrossesPlane(p1, p2) /\ SegmentDz(p1, p2) = Num(0)
                         THEN zeroDiv \cup {i} ELSE zeroDiv
           /\ IF CrossesPlane(p1, p2)
              THEN /\ ret' = IF /\ InWidth(ImpactX(p1, p2))
                                /\ InHeight(ImpactY(p1, p2))
                             THEN HitResult(p1, p2) ELSE MissResult
                   /\ cpc' = "returned"
                   /\ i' = i
              ELSE /\ i' = i + 1
                   /\ UNCHANGED <<ret, cpc>>
    /\ UNCHANGED <<points, predictVars, viewVars, reconVars, procVars>>

\* One iteration of the for loop, on the segment points[i] -> points[i+1]
\* (elements i+1 and i+2 of the 1-based sequence).
ImpactIteration ==
    /\ cpc = "loop"
    /\ ImpactLoopCond
    /\ LET p1 == points[i + 1]
           p2 == points[i + 2]
       IN  /\ zeroDiv' = IF CrossesPlane(p1, p2) /\ SegmentDz(p1, p2) = Num(0)
                         THEN zeroDiv \cup {i} ELSE zeroDiv
           /\ IF /\ CrossesPlane(p1, p2)
                 /\ InWidth(ImpactX(p1, p2))
                 /\ InHeight(ImpactY(p1, p2))
              THEN /\ ret' = HitResult(p1, p2)
                   /\ cpc' = "returned"
                   /\ i' = i
              ELSE /\ i' = i + 1
                   /\ UNCHANGED <<ret, cpc>>
    /\ UNCHANGED <<points, predictVars, viewVars, reconVars, procVars>>

\* The loop ran out of segments: the final return.
ImpactReturnMiss ==
    /\ cpc = "loop"
    /\ ~ImpactLoopCond
    /\ ret' = MissResult
    /\ cpc' = "returned"
    /\ UNCHANGED <<points, i, zeroDiv, predictVars, viewVars, reconVars, procVars>>

----------------------------------------------------------------------------
(* Inputs of checkWicketImpact *)

MaxLen == 3

Sample(x, y, dz) == [x |-> x, y |-> y, z |-> Add(PITCH_LENGTH, dz)]

\* Samples on the plane z = PITCH_LENGTH: the wicket's centre, wide of it, its
\* far corner (both limits of the hit test), the near tolerance limit of the
\* leg stump at stump height, below ground, the off stump at ground level,
\* above the bails.
PlaneSamples ==
    { Sample(Num(0), <<3, 10>>, Num(0)),
      Sample(<<3, 10>>, <<3, 10>>, Num(0)),
      Sample(<<1333, 10000>>, <<181, 250>>, Num(0)),
      Sample(<<-429, 5000>>, <<711, 1000>>, Num(0)),
      Sample(Num(0), <<-1, 10>>, Num(0)),
      Sample(<<1143, 10000>>, Num(0), Num(0)),
      Sample(Num(0), Num(1), Num(0)) }

\* Samples in flight, short of the plane (3 m and 1 m) and 1 m past it: on the
\* centre line, wide of the wicket, and in line with the far corner.
FlightSamples ==
    { Sample(Num(0), <<3, 10>>, Num(-3)),
      Sample(<<3, 10>>, <<3, 10>>, Num(-3)),
      Sample(Num(0), <<3, 10>>, Num(-1)),
      Sample(Num(0), <<3, 10>>, Num(1)),
      Sample(<<3, 10>>, <<3, 10>>, Num(1)),
      Sample(<<1333, 10000>>, <<181, 250>>, Num(1)) }

ImpactSamples == PlaneSamples \cup FlightSamples

\* A path: samples stamped with increasing times.
Stamped(s) ==
    [k \in 1..Len(s) |->
        [x |-> s[k].x, y |-> s[k].y, z |-> s[k].z, t |-> Norm(k - 1, 20)]]

ImpactPaths ==
    { Stamped(s) : s \in UNION { [1..n -> ImpactSamples] : n \in 0..MaxLen } }

PredictIdle ==
    /\ history = <<>>
    /\ predictionTime = Num(0)
    /\ step = Num(0)
    /\ ppc = "idle"
    /\ vel = [vx |-> Num(0), vy |-> Num(0), vz |-> Num(0)]
    /\ currentTime = Num(0)
    /\ currX = Num(0)
    /\ currY = Num(0)
    /\ currZ = Num(0)
    /\ currVy = Num(0)
    /\ predictions = <<>>
    /\ bounces = <<>>

InitImpact ==
    /\ points \in ImpactPaths
    /\ i = 0
    /\ cpc = "loop"
    /\ ret = NoResult
    /\ zeroDiv = {}
    /\ PredictIdle
    /\ ViewIdle
    /\ ReconIdle
    /\ ProcIdle

NextImpact == ImpactIteration \/ ImpactReturnMiss

SpecImpact == InitImpact /\ [][NextImpact]_vars

----------------------------------------------------------------------------
(* predictTrajectory(points, predictionTime, step); `history` is its points *)

MaxPredictions == 12

\* const last, prev, dt.
LastPoint == history[Len(history)]
PrevPoint == history[Len(history) - 1]
HistoryDt == Sub(LastPoint.t, PrevPoint.t)

\* Velocity with the history's first sample in the place of the one before
\* the last.
VelocityFromFirst ==
    [vx |-> Div(Sub(LastPoint.x, history[1].x), Sub(LastPoint.t, history[1].t)),
     vy |-> Div(Sub(LastPoint.y, history[1].y), Sub(LastPoint.t, history[1].t)),
     vz |-> Div(Sub(LastPoint.z, history[1].z), Sub(LastPoint.t, history[1].t))]

\* The estimated velocity (vx, vy, vz): the last difference over dt.
Velocity ==
    [vx |-> Div(Sub(LastPoint.x, PrevPoint.x), HistoryDt),
     vy |-> Div(Sub(LastPoint.y, PrevPoint.y), HistoryDt),
     vz |-> Div(Sub(LastPoint.z, PrevPoint.z), HistoryDt)]

\* PredictEntry returning its argument, not a new empty array, from the guard.
PredictEntryReturnsInput ==
    /\ ppc = "entry"
    /\ IF Len(history) < 2
       THEN /\ predictions' = history
            /\ ppc' = "returned"
            /\ UNCHANGED <<vel, currentTime, currX, currY, currZ, currVy>>
       ELSE /\ vel' = Velocity
            /\ predictions' = <<>>
            /\ currentTime' = LastPoint.t
            /\ currX' = LastPoint.x
            /\ currY' = LastPoint.y
            /\ currZ' = LastPoint.z
            /\ currVy' = Velocity.vy
            /\ ppc' = "loop"
    /\ UNCHANGED <<history, predictionTime, step, bounces, impactVars,
                 viewVars, reconVars, procVars>>

\* The function up to its loop: the guard on the history's length, the
\* velocity estimate and the initial values of the loop's variables.
PredictEntry ==
    /\ ppc = "entry"
    /\ IF Len(history) < 2
       THEN /\ predictions' = <<>>
            /\ ppc' = "returned"
            /\ UNCHANGED <<vel, currentTime, currX, currY, currZ, currVy>>
       ELSE /\ vel' = Velocity
            /\ predictions' = <<>>
            /\ currentTime' = LastPoint.t
            /\ currX' = LastPoint.x
            /\ currY' = LastPoint.y
            /\ currZ' = LastPoint.z
            /\ currVy' = Velocity.vy
            /\ ppc' = "loop"
    /\ UNCHANGED <<history, predictionTime, step, bounces, impactVars,
                 viewVars, reconVars, procVars>>

\* PredictLoopCond without its test of currZ.
PredictLoopCondTimeOnly ==
    Lt(currentTime, Add(LastPoint.t, predictionTime))

\* PredictLoopCond with <= in its test of currentTime.
PredictLoopCondInclusive ==
    /\ Le(currentTime, Add(LastPoint.t, predictionTime))
    /\ Lt(currZ, Add(PITCH_LENGTH, Num(2)))

\* The while loop's condition.
PredictLoopCond ==
    /\ Lt(currentTime, Add(LastPoint.t, predictionTime))
    /\ Lt(currZ, Add(PITCH_LENGTH, Num(2)))

\* Restitution of a bounce without loss.
RestitutionElastic == <<1, 1>>

\* Restitution with the 0.75 of the other bounce in the repository.
RestitutionThreeQuarters == <<3, 4>>

\* The bounce's restitution, 0.6.
Restitution == <<3, 5>>

\* FallY with y advanced by the velocity from before gravity acted.
FallYBeforeGravity == Add(currY, Mul(currVy, step))

\* currVy and currY after gravity has acted for one step, before the bounce.
FallVy == Sub(currVy, Mul(GRAVITY, step))
FallY == Add(currY, Mul(FallVy, step))

\* The height after a bounce without the change of sign.
BounceYUnreflected == Mul(FallY, Restitution)

\* y = -y * 0.6, taken when the new height is below the ground.
BounceY == Mul(Neg(FallY), Restitution)

\* The time of the sample an iteration pushes.
PushedTimeStale == currentTime
PushedTime == Add(currentTime, step)

\* PredictIteration with predictions an alias of the argument: the sample is
\* pushed onto the history too.
PredictIterationPushesToInput ==
    /\ ppc = "loop"
    /\ PredictLoopCond
    /\ Len(predictions) < MaxPredictions
    /\ currentTime' = Add(currentTime, step)
    /\ currX' = Add(currX, Mul(vel.vx, step))
    /\ currZ' = Add(currZ, Mul(vel.vz, step))
    /\ IF Lt(FallY, Num(0))
       THEN /\ currY' = BounceY
            /\ currVy' = Mul(Neg(FallVy), Restitution)
       ELSE /\ currY' = FallY
            /\ currVy' = FallVy
    /\ predictions' = Append(predictions,
                             [x |-> currX', y |-> currY', z |-> currZ',
                              t |-> PushedTime])
    /\ bounces' = IF Lt(FallY, Num(0))
                   THEN Append(bounces, [k |-> Len(predictions) + 1,
                                         vy |-> FallVy, y |-> FallY])
                   ELSE bounces
    /\ history' = Append(history,
                         [x |-> currX', y |-> currY', z |-> currZ',
                          t |-> PushedTime])
    /\ UNCHANGED <<predictionTime, step, ppc, vel, impactVars,
                 viewVars, reconVars, procVars>>

\* One iteration of the while loop.  The model stops a run after
\* MaxPredictions samples.
PredictIteration ==
    /\ ppc = "loop"
    /\ PredictLoopCond
    /\ Len(predictions) < MaxPredictions
    /\ currentTime' = Add(currentTime, step)
    /\ currX' = Add(currX, Mul(vel.vx, step))
    /\ currZ' = Add(currZ, Mul(vel.vz, step))
    /\ IF Lt(FallY, Num(0))
       THEN /\ currY' = BounceY
            /\ currVy' = Mul(Neg(FallVy), Restitution)
       ELSE /\ currY' = FallY
            /\ currVy' = FallVy
    /\ predictions' = Append(predictions,
                             [x |-> currX', y |-> currY', z |-> currZ',
                              t |-> PushedTime])
    /\ bounces' = IF Lt(FallY, Num(0))
                   THEN Append(bounces, [k |-> Len(predictions) + 1,
                                         vy |-> FallVy, y |-> FallY])
                   ELSE bounces
    /\ UNCHANGED <<history, predictionTime, step, ppc, vel, impactVars,
                 viewVars, reconVars, procVars>>

\* The loop's condition is false: return predictions.
PredictReturn ==
    /\ ppc = "loop"
    /\ ~PredictLoopCond
    /\ ppc' = "returned"
    /\ UNCHANGED <<history, predictionTime, step, vel, currentTime,
                   currX, currY, currZ, currVy, predictions, bounces,
                   impactVars, viewVars, reconVars, procVars>>

----------------------------------------------------------------------------
(* Inputs of predictTrajectory *)

MaxHistory == 3

Tracked(x, y, z, t) == [x |-> x, y |-> y, z |-> z, t |-> t]

\* Tracked samples: a release and the sample 0.05 s after it, a second sample
\* at the release's instant, two samples of a ball about to reach the stumps,
\* one of a ball coming back up the pitch, and one past the end of the pitch
\* by more than the loop's 2 m margin.
HistorySamples ==
    { Tracked(Num(0), <<11, 5>>, Num(0), Num(0)),
      Tracked(<<1, 50>>, Num(2), Num(1), <<1, 20>>),
      Tracked(Num(0), Num(2), Num(1), Num(0)),
      Tracked(Num(0), <<2, 5>>, <<37, 2>>, <<1, 20>>),
      Tracked(Num(0), <<7, 20>>, <<39, 2>>, <<1, 10>>),
      Tracked(Num(0), <<9, 5>>, <<1, 2>>, <<1, 10>>),
      Tracked(Num(0), <<3, 10>>, Num(23), <<3, 20>>) }

\* Histories near the plane of the stumps.  A slow ball, 2 m/s down the pitch,
\* whose predicted samples land on the plane itself, in line with the stumps
\* and wide of them; and a ball that has passed the plane, over the bails or
\* through the wicket, and is on its way back towards it.
PlaneHistories ==
    { << Tracked(Num(0), <<3, 10>>, <<991, 50>>, <<1, 20>>),
         Tracked(Num(0), <<3, 10>>, <<498, 25>>, <<1, 10>>) >>,
      << Tracked(<<3, 10>>, <<3, 10>>, <<991, 50>>, <<1, 20>>),
         Tracked(<<3, 10>>, <<3, 10>>, <<498, 25>>, <<1, 10>>) >>,
      << Tracked(Num(0), <<7, 20>>, <<39, 2>>, <<1, 10>>),
         Tracked(Num(0), <<3, 2>>, Num(21), <<3, 20>>),
         Tracked(Num(0), <<1, 2>>, <<41, 2>>, <<1, 5>>) >>,
      << Tracked(Num(0), <<7, 20>>, <<39, 2>>, <<1, 10>>),
         Tracked(Num(0), <<2, 5>>, Num(21), <<3, 20>>),
         Tracked(Num(0), <<1, 2>>, <<41, 2>>, <<1, 5>>) >> }

\* Histories near the ground, mid-pitch, at 10 m/s down the pitch: a ball
\* driven down at 3 m/s from 5 cm, and a ball at 10 cm with no vertical
\* velocity.
GroundHistories ==
    { << Tracked(Num(0), <<1, 5>>, Num(10), Num(0)),
         Tracked(Num(0), <<1, 20>>, <<21, 2>>, <<1, 20>>) >>,
      << Tracked(Num(0), <<1, 10>>, Num(10), Num(0)),
         Tracked(Num(0), <<1, 10>>, <<21, 2>>, <<1, 20>>) >> }

\* Histories whose last sample is below the ground, as a tracker's noise can
\* give: a ball still going down, and one coming up.
SunkHistories ==
    { << Tracked(Num(0), <<1, 10>>, Num(10), Num(0)),
         Tracked(Num(0), <<-1, 5>>, <<21, 2>>, <<1, 20>>) >>,
      << Tracked(Num(0), <<-3, 10>>, Num(10), Num(0)),
         Tracked(Num(0), <<-1, 10>>, <<21, 2>>, <<1, 20>>) >> }

Histories ==
    UNION { [1..n -> HistorySamples] : n \in 0..MaxHistory }
        \cup PlaneHistories \cup GroundHistories \cup SunkHistories

\* Horizons: none, the 0.5 s of the caller in TrajectoryView.tsx, and 0.6 s.
PredictionTimes == { Num(0), <<1, 2>>, <<3, 5>> }

\* Steps: none, the default 0.05 s, and 0.1 s.
Steps == { Num(0), <<1, 20>>, <<1, 10>> }

ImpactIdle ==
    /\ points = <<>>
    /\ i = 0
    /\ cpc = "idle"
    /\ ret = NoResult
    /\ zeroDiv = {}

InitPredict ==
    /\ history \in Histories
    /\ predictionTime \in PredictionTimes
    /\ step \in Steps
    /\ ppc = "entry"
    /\ vel = [vx |-> Num(0), vy |-> Num(0), vz |-> Num(0)]
    /\ currentTime = Num(0)
    /\ currX = Num(0)
    /\ currY = Num(0)
    /\ currZ = Num(0)
    /\ currVy = Num(0)
    /\ predictions = <<>>
    /\ bounces = <<>>
    /\ ImpactIdle
    /\ ViewIdle
    /\ ReconIdle
    /\ ProcIdle

NextPredict == PredictEntry \/ PredictIteration \/ PredictReturn

SpecPredict == InitPredict /\ [][NextPredict]_vars

----------------------------------------------------------------------------
(* Properties of checkWicketImpact, under SpecImpact *)

\* The segments of the path, by the loop index that scans them.
Segments == 0 .. (Len(points) - 2)
P1(k) == points[k + 1]
P2(k) == points[k + 2]

\* Both endpoints strictly short of the plane, or both strictly past it.
SameStrictSide(k) ==
    \/ (Lt(P1(k).z, PITCH_LENGTH) /\ Lt(P2(k).z, PITCH_LENGTH))
    \/ (Gt(P1(k).z, PITCH_LENGTH) /\ Gt(P2(k).z, PITCH_LENGTH))

OnOrAcrossPlane(k) == ~SameStrictSide(k)

\* The interpolated crossing point of segment k.
CrossingRatio(k) ==
    Div(MathAbs(Sub(PITCH_LENGTH, P1(k).z)), MathAbs(Sub(P2(k).z, P1(k).z)))
CrossingX(k) == Add(P1(k).x, Mul(Sub(P2(k).x, P1(k).x), CrossingRatio(k)))
CrossingY(k) == Add(P1(k).y, Mul(Sub(P2(k).y, P1(k).y), CrossingRatio(k)))

\* |x| <= 0.1143 + 0.019 and 0 <= y <= 0.711 + 0.013.
WithinWicket(x, y) ==
    /\ Le(MathAbs(x), <<1333, 10000>>)
    /\ Le(Num(0), y)
    /\ Le(y, <<724, 1000>>)

PassingSegments ==
    { k \in Segments : OnOrAcrossPlane(k) /\ WithinWicket(CrossingX(k), CrossingY(k)) }

CrossingSegments == { k \in Segments : OnOrAcrossPlane(k) }

First(S) == CHOOSE k \in S : \A j \in S : k <= j

Returned == cpc = "returned"

\* C1: once checkWicketImpact has returned, isHit is true exactly when some
\* segment on or across the plane z = PITCH_LENGTH has its interpolated
\* crossing point within |x| <= STUMP_WIDTH/2 + STUMP_RADIUS and
\* 0 <= y <= STUMP_HEIGHT + BAIL_HEIGHT, limits included; a crossing at
\* |x| = 0.3 does not make a hit.
C1_HitTest ==
    Returned =>
        /\ ret.isHit <=> PassingSegments # {}
        /\ ret.isHit => MathAbs(ret.impactPoint.x) # <<3, 10>>

\* C1 witness: a one-segment path crossing the plane in flight at |x| = 0.3,
\* at a height inside the wicket, returned as a miss.
C1_Witness ==
    /\ Returned
    /\ Len(points) = 2
    /\ Lt(P1(0).z, PITCH_LENGTH) /\ Gt(P2(0).z, PITCH_LENGTH)
    /\ MathAbs(CrossingX(0)) = <<3, 10>>
    /\ Le(Num(0), CrossingY(0)) /\ Le(CrossingY(0), <<724, 1000>>)
    /\ ~ret.isHit

\* C2 as claimed: the first segment on or across the plane decides; when its
\* crossing point (taken here on a segment of nonzero length along z) fails
\* the hit test the result is the miss result.
C2_FirstCrossingDecides ==
    (Returned /\ CrossingSegments # {}) =>
        LET k == First(CrossingSegments)
        IN  (P1(k).z # P2(k).z /\ ~WithinWicket(CrossingX(k), CrossingY(k))) =>
                ret = [isHit |-> FALSE, partHit |-> "none"]

\* C2 amended: the first segment on or across the plane whose crossing point
\* passes the hit test decides: the result is a hit at that segment's
\* crossing point, and it is the miss result (isHit false, partHit 'none', no
\* impactPoint) only when no such segment exists.
C2_FirstPassingDecides ==
    Returned =>
        IF PassingSegments = {}
        THEN ret = [isHit |-> FALSE, partHit |-> "none"]
        ELSE LET k == First(PassingSegments)
             IN  /\ ret.isHit
                 /\ i = k
                 /\ ret.impactPoint =
                        [x |-> CrossingX(k), y |-> CrossingY(k), z |-> PITCH_LENGTH]

\* C2 witness: the first crossing segment crosses in flight outside the wicket
\* and a later segment makes the hit.
C2_Witness ==
    /\ Returned
    /\ ret.isHit
    /\ CrossingSegments # {}
    /\ LET k == First(CrossingSegments)
       IN  /\ k < i
           /\ P1(k).z # P2(k).z
           /\ ~WithinWicket(CrossingX(k), CrossingY(k))

\* The zone of a crossing point, with the limits written out:
\* STUMP_HEIGHT = 0.711, STUMP_WIDTH/2 = 0.1143, 1.5 * STUMP_RADIUS = 0.0285.
ZoneOf(x, y) ==
    IF Gt(y, <<711, 1000>>) THEN "bails"
    ELSE IF Le(MathAbs(Sub(x, <<1143, 10000>>)), <<285, 10000>>) THEN "off"
    ELSE IF Le(MathAbs(Add(x, <<1143, 10000>>)), <<285, 10000>>) THEN "leg"
    ELSE "middle"

\* C3: on a hit the zone is 'bails' if impact y > STUMP_HEIGHT, otherwise 'off'
\* within 1.5 * STUMP_RADIUS of the off stump, else 'leg' within the same
\* distance of the leg stump, else 'middle'; so x = 0, y = 0.3 is 'middle' and
\* any hit above STUMP_HEIGHT is 'bails' whatever its x.
C3_ZonePriority ==
    (Returned /\ ret.isHit) =>
        /\ ret.partHit = ZoneOf(ret.impactPoint.x, ret.impactPoint.y)
        /\ (ret.impactPoint.x = Num(0) /\ ret.impactPoint.y = <<3, 10>>)
               => ret.partHit = "middle"
        /\ Gt(ret.impactPoint.y, STUMP_HEIGHT) => ret.partHit = "bails"

\* C3 witness: a hit at x = 0, y = 0.3 classified 'middle'.
C3_Witness ==
    /\ Returned
    /\ ret.isHit
    /\ ret.impactPoint.x = Num(0)
    /\ ret.impactPoint.y = <<3, 10>>
    /\ ret.partHit = "middle"

\* C4: a path (the empty and the one-sample path included) with no pair of
\* consecutive samples on opposite sides of, or on, the plane returns
\* isHit = false, partHit 'none' and no impact point.
C4_NoCrossingNoHit ==
    (Returned /\ \A k \in Segments : SameStrictSide(k)) =>
        /\ ret.isHit = FALSE
        /\ ret.partHit = "none"
        /\ "impactPoint" \notin DOMAIN ret

\* C4 witness: a three-sample path that advances in z short of the plane.
C4_Witness ==
    /\ Returned
    /\ Len(points) = 3
    /\ \A k \in Segments : SameStrictSide(k)
    /\ \E k \in Segments : Lt(P1(k).z, P2(k).z)
    /\ ~ret.isHit

Between(v, a, b) == (Le(a, v) /\ Le(v, b)) \/ (Le(b, v) /\ Le(v, a))

\* C5: on a hit found on segment i the impact point is p1 + (p2 - p1) * ratio
\* in x and y, with ratio = |PITCH_LENGTH - p1.z| / |p2.z - p1.z| in [0, 1],
\* and z = PITCH_LENGTH; so its x and y lie between the endpoints' x and y.
C5_Interpolation ==
    (Returned /\ ret.isHit) =>
        LET p1 == P1(i)
            p2 == P2(i)
            a == MathAbs(Sub(PITCH_LENGTH, p1.z))
            b == MathAbs(Sub(p2.z, p1.z))
            ip == ret.impactPoint
        IN  /\ Lt(Num(0), b)
            /\ Le(a, b)
            /\ Mul(Sub(ip.x, p1.x), b) = Mul(Sub(p2.x, p1.x), a)
            /\ Mul(Sub(ip.y, p1.y), b) = Mul(Sub(p2.y, p1.y), a)
            /\ ip.z = PITCH_LENGTH
            /\ Between(ip.x, p1.x, p2.x)
            /\ Between(ip.y, p1.y, p2.y)

\* C5 witness: a hit on a segment that crosses the plane backwards, strictly
\* inside the segment, with x and y changing along it.
C5_Witness ==
    /\ Returned
    /\ ret.isHit
    /\ Gt(P1(i).z, PITCH_LENGTH) /\ Lt(P2(i).z, PITCH_LENGTH)
    /\ P1(i).x # P2(i).x
    /\ P1(i).y # P2(i).y

\* A segment of zero length along z, on the plane.
Degenerate(k) == P1(k).z = PITCH_LENGTH /\ P2(k).z = PITCH_LENGTH

\* C6 as claimed: for a segment with both endpoints on the plane no division
\* by zero is evaluated, no hit is reported from it and the scan goes on.
C6_NoDivisionByZero ==
    \A k \in Segments : Degenerate(k) =>
        /\ k \notin zeroDiv
        /\ Returned => i # k

\* C6 amended: for a segment with both endpoints on the plane the ratio is
\* evaluated, as 0/0 = NaN; no comparison of the hit test holds of NaN, so no
\* hit is reported from the segment and the scan goes on to the next one.
C6_NaNFallsThrough ==
    \A k \in Segments : Degenerate(k) =>
        /\ IsNaN(CrossingRatio(k))
        /\ k \in zeroDiv <=> i > k
        /\ Returned => i # k

\* C6 witness: a hit found on a segment that follows a degenerate one.
C6_Witness ==
    /\ Returned
    /\ ret.isHit
    /\ \E k \in Segments : k < i /\ Degenerate(k) /\ k \in zeroDiv

\* C7: every result is consistent: isHit holds exactly when impactPoint is
\* present, exactly when partHit is 'off', 'middle', 'leg' or 'bails' (and is
\* 'none' otherwise), and a present impactPoint has z = PITCH_LENGTH.
C7_ResultConsistent ==
    Returned =>
        /\ ret.isHit \in BOOLEAN
        /\ ret.isHit <=> "impactPoint" \in DOMAIN ret
        /\ ret.isHit <=> ret.partHit \in {"off", "middle", "leg", "bails"}
        /\ ~ret.isHit <=> ret.partHit = "none"
        /\ "impactPoint" \in DOMAIN ret => ret.impactPoint.z = PITCH_LENGTH

\* C7 witness: a hit between the stumps' tolerance bands, which the final else
\* classifies.
C7_Witness ==
    /\ Returned
    /\ ret.isHit
    /\ "impactPoint" \in DOMAIN ret
    /\ ret.partHit = "middle"
    /\ Gt(MathAbs(ret.impactPoint.x), StumpTolerance)

----------------------------------------------------------------------------
(* Properties of predictTrajectory, under SpecPredict *)

PredictReturned == ppc = "returned"

\* The history's timestamps increase strictly from each sample to the next.
StrictlyIncreasing(h) ==
    \A k \in 1 .. (Len(h) - 1) : Lt(h[k].t, h[k + 1].t)

\* C8: with a history of fewer than 2 samples predictTrajectory returns the
\* empty sequence, whatever the horizon and the step, without running its loop.
C8_ShortHistoryEmpty ==
    Len(history) < 2 =>
        /\ ppc \in {"entry", "returned"}
        /\ predictions = <<>>

\* C8 witness: a one-sample history, with a positive horizon and step,
\* returned as the empty sequence.
C8_Witness ==
    /\ PredictReturned
    /\ Len(history) = 1
    /\ Gt(predictionTime, Num(0))
    /\ Gt(step, Num(0))
    /\ predictions = <<>>

\* C9 as claimed: with a history of 2 or more samples whose last two
\* timestamps are equal or decreasing (dt <= 0) predictTrajectory returns the
\* empty sequence (taken here with a positive step).
C9_NonIncreasingEmpty ==
    (/\ PredictReturned
     /\ Len(history) >= 2
     /\ Le(HistoryDt, Num(0))
     /\ Gt(step, Num(0))) =>
        predictions = <<>>

\* C10: for a history of 2 or more samples with strictly increasing timestamps
\* and a step > 0, the k-th predicted sample has t = last.t + k * step, which
\* is after the last history timestamp, and the predicted timestamps increase
\* strictly; so history followed by the predictions is ordered by t with no
\* timestamp repeated.
C10_TimestampsAdvance ==
    (Len(history) >= 2 /\ StrictlyIncreasing(history) /\ Gt(step, Num(0))) =>
        /\ \A k \in 1 .. Len(predictions) :
              /\ predictions[k].t = Add(LastPoint.t, Mul(Num(k), step))
              /\ Gt(predictions[k].t, LastPoint.t)
        /\ StrictlyIncreasing(predictions)
        /\ StrictlyIncreasing(history \o predictions)

\* C10 witness: a returned prediction of at least two samples from a history
\* of three samples with strictly increasing timestamps.
C10_Witness ==
    /\ PredictReturned
    /\ Len(history) = 3
    /\ StrictlyIncreasing(history)
    /\ Gt(step, Num(0))
    /\ Len(predictions) >= 2

\* The loop's two limits: the end of the horizon and the end of the pitch
\* plus the 2 m margin.
HorizonEnd == Add(LastPoint.t, predictionTime)
PitchEnd == Add(PITCH_LENGTH, Num(2))

\* C11: predictTrajectory stops emitting once a sample has reached the
\* horizon's end or PITCH_LENGTH + 2: every sample but the final one has
\* t < last.t + predictionTime and z < PITCH_LENGTH + 2, the final sample of a
\* returned non-empty prediction has reached one of the two limits, and the
\* result is empty when the last history sample already has
\* z >= PITCH_LENGTH + 2 or when predictionTime <= 0.
C11_StopsAtLimits ==
    Len(history) >= 2 =>
        /\ \A k \in 1 .. (Len(predictions) - 1) :
              /\ Lt(predictions[k].t, HorizonEnd)
              /\ Lt(predictions[k].z, PitchEnd)
        /\ (PredictReturned /\ predictions # <<>>) =>
              LET f == predictions[Len(predictions)]
              IN  ~(Lt(f.t, HorizonEnd) /\ Lt(f.z, PitchEnd))
        /\ (PredictReturned /\ (Ge(LastPoint.z, PitchEnd) \/ Le(predictionTime, Num(0))))
              => predictions = <<>>

\* C11 witness: a returned prediction of several samples that stopped short
\* of the horizon because its final sample passed PITCH_LENGTH + 2.
C11_Witness ==
    /\ PredictReturned
    /\ Len(history) >= 2
    /\ Gt(HistoryDt, Num(0))
    /\ Len(predictions) >= 2
    /\ LET f == predictions[Len(predictions)]
       IN  Ge(f.z, PitchEnd) /\ Lt(f.t, HorizonEnd)

\* C12 as claimed: predictTrajectory terminates for every finite history,
\* predictionTime and step.  The loop's condition reads only currentTime and
\* currZ (last.t and predictionTime are fixed), so termination requires that
\* no iteration leaves both unchanged: after such an iteration the condition
\* holds again, and then for ever.
C12_LoopAdvances ==
    [][(ppc = "loop" /\ ppc' = "loop" /\ Len(predictions') > Len(predictions))
          => (currentTime' # currentTime \/ currZ' # currZ)]_vars

\* The history and arguments of the worked scenario: two samples 0.05 s
\* apart, a horizon of 0.6 s and a step of 0.05 s.
ScenarioCall ==
    /\ history = << Tracked(Num(0), <<11, 5>>, Num(0), Num(0)),
                    Tracked(<<1, 50>>, Num(2), Num(1), <<1, 20>>) >>
    /\ predictionTime = <<3, 5>>
    /\ step = <<1, 20>>

IterationStep == ppc = "loop" /\ Len(predictions') = Len(predictions) + 1

\* C14: in each iteration, with vy and y integrated over the step (vy less
\* 9.81 * step, then y plus vy * step): when the integrated y is negative the
\* emitted height is -y * 0.6 and the vertical velocity becomes -vy * 0.6;
\* when it is >= 0 the bounce rule changes neither.
C14_BounceRule ==
    [][IterationStep =>
          LET vy1 == Sub(currVy, Mul(<<981, 100>>, step))
              y1 == Add(currY, Mul(vy1, step))
              pushed == predictions'[Len(predictions')]
          IN  /\ Lt(y1, Num(0)) =>
                    /\ currY' = Mul(Neg(y1), <<3, 5>>)
                    /\ currVy' = Mul(Neg(vy1), <<3, 5>>)
                    /\ pushed.y = currY'
              /\ Ge(y1, Num(0)) =>
                    /\ currY' = y1
                    /\ currVy' = vy1
                    /\ pushed.y = y1]_vars

\* C14 witness: a falling ball has bounced: its history's vertical velocity
\* was not upward, and gravity alone never turns it upward.
C14_Witness ==
    /\ ppc \in {"loop", "returned"}
    /\ Len(history) >= 2
    /\ Gt(HistoryDt, Num(0))
    /\ Gt(step, Num(0))
    /\ Le(vel.vy, Num(0))
    /\ Gt(currVy, Num(0))
    /\ Gt(currY, Num(0))

\* The velocity of the claim: (last - secondToLast) / dt, component-wise.
LastDifference(c) ==
    Div(Sub(history[Len(history)][c], history[Len(history) - 1][c]),
        Sub(history[Len(history)].t, history[Len(history) - 1].t))

\* The k-th sample's x and z are linear in k.
LinearXZ ==
    (Len(history) >= 2 /\ HistoryDt # Num(0)) =>
        \A k \in 1..Len(predictions) :
            /\ predictions[k].x =
                   Add(LastPoint.x,
                       Mul(Num(k), Mul(LastDifference("x"), step)))
            /\ predictions[k].z =
                   Add(LastPoint.z,
                       Mul(Num(k), Mul(LastDifference("z"), step)))

\* In a step the velocity loses 9.81 * step first, and y then advances by the
\* updated velocity: seen in every step without a bounce.
GravityThenHeight ==
    IterationStep =>
        LET vy1 == Sub(currVy, Mul(<<981, 100>>, step))
            y1 == Add(currY, Mul(vy1, step))
        IN  Ge(y1, Num(0)) =>
                /\ currVy' = vy1
                /\ predictions'[Len(predictions')].y = y1

\* C15: with v the last difference of the history over dt, the k-th returned
\* sample has x = last.x + k*vx*step and z = last.z + k*vz*step, and in each
\* step vy is first decreased by 9.81 * step and y then advanced by the
\* updated vy * step.
C15_LinearMotion == [](LinearXZ) /\ [][GravityThenHeight]_vars

\* C15 witness: a call has returned four or more samples of a ball that moves
\* sideways and down the pitch, with a bounce among them.
C15_Witness ==
    /\ PredictReturned
    /\ Len(history) >= 2
    /\ Gt(HistoryDt, Num(0))
    /\ Len(predictions) >= 4
    /\ Gt(vel.vx, Num(0))
    /\ Gt(vel.vz, Num(0))
    /\ Le(vel.vy, Num(0))
    /\ Gt(currVy, Num(0))

----------------------------------------------------------------------------
(* The two functions as operators, for properties that relate several calls *)

\* The most samples the operator computes for one call.
MaxContinuation == 24

\* The while loop of predictTrajectory from the loop variables cur, with acc
\* the samples pushed so far.
RECURSIVE PredictLoop(_, _, _, _, _)
PredictLoop(last, T, s, cur, acc) ==
    IF \/ Len(acc) >= MaxContinuation
       \/ ~(/\ Lt(cur.t, Add(last.t, T))
            /\ Lt(cur.z, Add(PITCH_LENGTH, Num(2))))
    THEN acc
    ELSE LET t1 == Add(cur.t, s)
             x1 == Add(cur.x, Mul(cur.vx, s))
             z1 == Add(cur.z, Mul(cur.vz, s))
             vy1 == Sub(cur.vy, Mul(GRAVITY, s))
             y1 == Add(cur.y, Mul(vy1, s))
             y2 == IF Lt(y1, Num(0)) THEN Mul(Neg(y1), Restitution) ELSE y1
             vy2 == IF Lt(y1, Num(0)) THEN Mul(Neg(vy1), Restitution) ELSE vy1
         IN  PredictLoop(last, T, s,
                         [t |-> t1, x |-> x1, y |-> y2, z |-> z1,
                          vx |-> cur.vx, vy |-> vy2, vz |-> cur.vz],
                         Append(acc, [x |-> x1, y |-> y2, z |-> z1, t |-> t1]))

\* predictTrajectory(points, predictionTime, step).
predictTrajectory(pts, T, s) ==
    IF Len(pts) < 2
    THEN <<>>
    ELSE LET last == pts[Len(pts)]
             prev == pts[Len(pts) - 1]
             dt == Sub(last.t, prev.t)
         IN  PredictLoop(last, T, s,
                         [t |-> last.t, x |-> last.x, y |-> last.y,
                          z |-> last.z,
                          vx |-> Div(Sub(last.x, prev.x), dt),
                          vy |-> Div(Sub(last.y, prev.y), dt),
                          vz |-> Div(Sub(last.z, prev.z), dt)],
                         <<>>)

\* ImpactScan from the last segment to the first.
RECURSIVE ImpactScanBackwards(_, _)
ImpactScanBackwards(pts, k) ==
    IF ~(k < Len(pts) - 1)
    THEN MissResult
    ELSE LET p1 == pts[Len(pts) - 1 - k]
             p2 == pts[Len(pts) - k]
         IN  IF /\ CrossesPlane(p1, p2)
                /\ InWidth(ImpactX(p1, p2))
                /\ InHeight(ImpactY(p1, p2))
             THEN HitResult(p1, p2)
             ELSE ImpactScanBackwards(pts, k + 1)

\* The for loop of checkWicketImpact from index k, and the final return.
RECURSIVE ImpactScan(_, _)
ImpactScan(pts, k) ==
    IF ~(k < Len(pts) - 1)
    THEN MissResult
    ELSE LET p1 == pts[k + 1]
             p2 == pts[k + 2]
         IN  IF /\ CrossesPlane(p1, p2)
                /\ InWidth(ImpactX(p1, p2))
                /\ InHeight(ImpactY(p1, p2))
             THEN HitResult(p1, p2)
             ELSE ImpactScan(pts, k + 1)

\* checkWicketImpact(points).
checkWicketImpact(pts) == ImpactScan(pts, 0)

----------------------------------------------------------------------------
(* Properties that relate several calls, under SpecPredict *)

\* Histories of up to two samples, as the earlier part of a longer history.
EarlierSamples == UNION { [1..n -> HistorySamples] : n \in 0..2 }

\* C16: two calls whose histories agree on their last two samples, with the
\* same predictionTime and step, return identical sequences whatever the
\* earlier samples are: the returned sequence is the one of the call on the
\* last two samples alone, and the one of every call on those two samples
\* with other samples before them.
C16_Local ==
    (PredictReturned /\ Len(history) >= 2) =>
        /\ predictions =
               predictTrajectory(<<PrevPoint, LastPoint>>, predictionTime, step)
        /\ Len(history) = 2 =>
               \A earlier \in EarlierSamples :
                   predictTrajectory(earlier \o history, predictionTime, step)
                       = predictions

\* C16 witness: a call on three samples, the first of which differs from the
\* second in every coordinate, has returned samples.
C16_Witness ==
    /\ PredictReturned
    /\ Len(history) = 3
    /\ Gt(HistoryDt, Num(0))
    /\ history[1].y # history[2].y
    /\ history[1].z # history[2].z
    /\ history[1].t # history[2].t
    /\ Len(predictions) >= 2

\* What a longer horizon adds to predictionTime.
Extensions == { <<1, 10>>, <<1, 2>> }

\* Some segment of pts has its ends on the two sides of the plane
\* z = PITCH_LENGTH, or an end on it.
FindsCrossing(pts) ==
    \E k \in 1..(Len(pts) - 1) :
        /\ ~(Lt(pts[k].z, <<503, 25>>) /\ Lt(pts[k + 1].z, <<503, 25>>))
        /\ ~(Gt(pts[k].z, <<503, 25>>) /\ Gt(pts[k + 1].z, <<503, 25>>))

\* The history never moves back up the pitch.
ForwardZ(h) == \A k \in 1..(Len(h) - 1) : Le(h[k].z, h[k + 1].z)

\* The returned call's inputs are those of the claim.
HorizonCase ==
    /\ PredictReturned
    /\ Len(history) >= 2
    /\ StrictlyIncreasing(history)
    /\ Gt(step, Num(0))

AtHorizon == checkWicketImpact(history \o predictions)
AtLongerHorizon(D) ==
    checkWicketImpact(
        history \o predictTrajectory(history, Add(predictionTime, D), step))

\* C17 as stated: if the result at horizon H finds a crossing segment, the
\* result at every horizon H + D is the same.
C17_HorizonStable ==
    HorizonCase =>
        \A D \in Extensions :
            FindsCrossing(history \o predictions) =>
                AtLongerHorizon(D) = AtHorizon

\* C17, amended: the result at H + D is the result at H if the one at H is a
\* hit, or if it found a crossing segment and the history never moves back up
\* the pitch.
C17_HorizonStableForward ==
    HorizonCase =>
        \A D \in Extensions :
            (/\ FindsCrossing(history \o predictions)
             /\ (AtHorizon.isHit \/ ForwardZ(history))) =>
                AtLongerHorizon(D) = AtHorizon

\* C17 witness: a ball moving down the pitch has crossed the plane within the
\* horizon, missing the stumps, and a longer horizon adds samples.
C17_Witness ==
    /\ HorizonCase
    /\ ForwardZ(history)
    /\ FindsCrossing(history \o predictions)
    /\ ~AtHorizon.isHit
    /\ \E D \in Extensions :
           Len(predictTrajectory(history, Add(predictionTime, D), step))
               > Len(predictions)

----------------------------------------------------------------------------
(* Heights around a bounce, under SpecPredict *)

\* The largest of a set of heights.
MaxHeight(S) == CHOOSE m \in S : \A h \in S : Le(h, m)

FirstBounce == bounces[1]

\* The heights sampled before the first bounce, from the history's last
\* sample on, and those sampled from the first bounce on.
HeightsBefore ==
    {LastPoint.y} \cup { predictions[j].y : j \in 1..(FirstBounce.k - 1) }
HeightsAfter ==
    { predictions[j].y : j \in FirstBounce.k..Len(predictions) }

\* After the first bounce the samples have gone up and come down again.
ApexContained ==
    \E j \in (FirstBounce.k + 1)..Len(predictions) :
        Lt(predictions[j].y, predictions[j - 1].y)

\* The call of the claim: no lateral velocity, last.y >= 0, and a horizon
\* that holds a bounce and the apex after it.
BounceCase ==
    /\ PredictReturned
    /\ Len(history) >= 2
    /\ Gt(HistoryDt, Num(0))
    /\ Gt(step, Num(0))
    /\ vel.vx = Num(0)
    /\ Ge(LastPoint.y, Num(0))
    /\ bounces # <<>>
    /\ ApexContained

\* C18 as stated: the maximum height after the first bounce is strictly less
\* than the maximum height before it, and is 0.36 times it.
C18_ApexScaled ==
    BounceCase =>
        /\ Lt(MaxHeight(HeightsAfter), MaxHeight(HeightsBefore))
        /\ MaxHeight(HeightsAfter) = Mul(<<9, 25>>, MaxHeight(HeightsBefore))

\* The samples of bounce b: from its own sample to the one before the next
\* bounce.
FlightOf(b) ==
    { j \in bounces[b].k..Len(predictions) :
          b < Len(bounces) => j < bounces[b + 1].k }

\* The speed with which bounce b sends the ball up.
LaunchSpeed(b) == Mul(<<3, 5>>, MathAbs(bounces[b].vy))

\* The height of sample j over the sample of bounce b.
Climb(b, j) == Sub(predictions[j].y, predictions[bounces[b].k].y)

\* C18, amended: with v the vertical speed with which the ball reached the
\* ground, no sample between a bounce and the next is higher than the bounce's
\* own sample by more than 0.36 * v^2 / (2 * 9.81): the ball leaves with
\* 0.6 * v, and the height a speed can carry it to is scaled by restitution
\* squared.  (2 * 9.81 * climb <= (0.6 * v)^2, divided by 0.6 * v; for the
\* finite velocities of a history with dt # 0.)
C18_ClimbScaled ==
    (Len(history) >= 2 /\ HistoryDt # Num(0)) =>
        \A b \in 1..Len(bounces) :
            \A j \in FlightOf(b) :
                \/ Le(Climb(b, j), Num(0))
                \/ Le(Div(Mul(<<981, 50>>, Climb(b, j)), LaunchSpeed(b)),
                      LaunchSpeed(b))

\* C18 witness: the call of the claim, with samples after the first bounce
\* above the bounce's own.
C18_Witness ==
    /\ BounceCase
    /\ Gt(MaxHeight(HeightsAfter), predictions[FirstBounce.k].y)

----------------------------------------------------------------------------
(* Calls of either function *)

InitCalls == InitImpact \/ InitPredict

NextCalls == NextImpact \/ NextPredict

SpecCalls == InitCalls /\ [][NextCalls]_vars

----------------------------------------------------------------------------
(* generateSimulatedData of TrajectoryView *)

\* const frames = 60.
frames == 60

\* BounceFactor with the 0.6 of predictTrajectory.
BounceFactorOfPredictor == <<3, 5>>

\* The bounce factor of the synthetic trajectory, 0.75.
BounceFactor == <<3, 4>>

\* Verdict taken from checkWicketImpact whether or not a summary is given.
VerdictComputed(arg, observed, preds) ==
    checkWicketImpact(observed \o preds)

\* The value given to setImpact.
Verdict(arg, observed, preds) ==
    IF arg # Undefined
    THEN [isHit |-> arg.isHit, partHit |-> arg.partHit,
          impactPoint |-> arg.impact, reasoning |-> arg.reasoning]
    ELSE checkWicketImpact(observed \o preds)

\* generateSimulatedData(arg) up to its loop, with r1 and r2 the two values
\* of Math.random() (read only when no summary is given).
GenerateEntry(arg, r1, r2) ==
    LET given == arg # Undefined
        duration == IF given
                    THEN Div(PITCH_LENGTH, Div(arg.speedKmh, <<18, 5>>))
                    ELSE <<4, 5>>
        dt == Div(duration, Num(frames))
        x == IF given THEN Mul(arg.pitch.x, <<1, 2>>)
             ELSE Mul(Sub(r1, <<1, 2>>), <<1, 5>>)
        targetX == IF given THEN arg.impact.x
                   ELSE Mul(Sub(r2, <<1, 2>>), <<2, 5>>)
        pitchZ == IF given THEN arg.pitch.z ELSE Mul(PITCH_LENGTH, <<3, 5>>)
        vz == Div(PITCH_LENGTH, duration)
        vx == Div(Sub(targetX, x), duration)
        tBounce == Div(pitchZ, vz)
        vy == Div(Sub(Mul(Mul(Mul(<<1, 2>>, <<981, 100>>), tBounce), tBounce),
                      <<11, 5>>),
                  tBounce)
    IN  /\ gpc = "entry"
        /\ analysis' = arg
        /\ sim' = [duration |-> duration, dt |-> dt, vx |-> vx, vz |-> vz,
                   x |-> x, y |-> <<11, 5>>, z |-> Num(0), vy |-> vy, i |-> 0]
        /\ newPoints' = <<>>
        /\ gpc' = "loop"
        /\ UNCHANGED <<viewPoints, viewPredictions, impact, speed,
                       impactVars, predictVars, reconVars, procVars>>

\* One iteration of the for loop.
GenerateFrame ==
    /\ gpc = "loop"
    /\ sim.i <= frames
    /\ LET x1 == Add(sim.x, Mul(sim.vx, sim.dt))
           z1 == Add(sim.z, Mul(sim.vz, sim.dt))
           y1 == Add(sim.y, Mul(sim.vy, sim.dt))
           vy1 == Sub(sim.vy, Mul(<<981, 100>>, sim.dt))
           bounce == Lt(y1, Num(0)) /\ Lt(z1, PITCH_LENGTH)
       IN  /\ newPoints' = Append(newPoints,
                                  [x |-> sim.x, y |-> sim.y, z |-> sim.z,
                                   t |-> Mul(Num(sim.i), sim.dt)])
           /\ sim' = [sim EXCEPT
                        !.x = x1,
                        !.z = z1,
                        !.y = IF bounce THEN Num(0) ELSE y1,
                        !.vy = IF bounce THEN Mul(Neg(vy1), BounceFactor)
                               ELSE vy1,
                        !.i = sim.i + 1]
    /\ UNCHANGED <<viewPoints, viewPredictions, impact, speed, analysis, gpc,
                   impactVars, predictVars, reconVars, procVars>>

\* GenerateReturn reporting the fallback's speed in m/s.
GenerateReturnMetresPerSecond ==
    /\ gpc = "loop"
    /\ ~(sim.i <= frames)
    /\ LET preds == predictTrajectory(newPoints, <<1, 2>>, <<1, 20>>)
       IN  /\ viewPoints' = newPoints
           /\ viewPredictions' = preds
           /\ impact' = Verdict(analysis, newPoints, preds)
           /\ speed' = IF analysis # Undefined THEN analysis.speedKmh
                       ELSE sim.vz
    /\ gpc' = "returned"
    /\ UNCHANGED <<analysis, sim, newPoints, impactVars, predictVars, reconVars, procVars>>

\* After the loop: the four setters.
GenerateReturn ==
    /\ gpc = "loop"
    /\ ~(sim.i <= frames)
    /\ LET preds == predictTrajectory(newPoints, <<1, 2>>, <<1, 20>>)
       IN  /\ viewPoints' = newPoints
           /\ viewPredictions' = preds
           /\ impact' = Verdict(analysis, newPoints, preds)
           /\ speed' = IF analysis # Undefined THEN analysis.speedKmh
                       ELSE Mul(sim.vz, <<18, 5>>)
    /\ gpc' = "returned"
    /\ UNCHANGED <<analysis, sim, newPoints, impactVars, predictVars, reconVars, procVars>>

----------------------------------------------------------------------------
(* Inputs of generateSimulatedData *)

\* Summaries of the external analysis: 90.54 and 120.72 km/h (0.8 s and 0.6 s
\* down the pitch), pitching 12.072 m or 10.06 m down (0.6 and 0.5 of the
\* pitch, so that the numbers stay small) or one frame short of the stumps
\* (59/60 of the pitch), in line or 20 cm off, and
\* reaching the stumps in line or half a metre wide, with every verdict.
Analyses ==
    { [isHit |-> h, partHit |-> p, speedKmh |-> v,
       pitch |-> [x |-> px, z |-> pz],
       impact |-> [x |-> ix, y |-> <<3, 10>>, z |-> PITCH_LENGTH],
       reasoning |-> "summary"] :
          h \in BOOLEAN, p \in {"off", "middle", "none"},
          v \in { <<4527, 50>>, <<3018, 25>> },
          px \in { Num(0), <<1, 5>> }, pz \in { <<1509, 125>>, <<503, 50>>, <<29677, 1500>> },
          ix \in { Num(0), <<1, 2>> } }

\* Values of Math.random().
Randoms == { Num(0), <<1, 4>>, <<1, 2>>, <<3, 4>> }

\* The call with the summary, and the fallback call without one.
GenerateFromAnalysis ==
    \E arg \in Analyses : GenerateEntry(arg, Num(0), Num(0))

GenerateFallback ==
    \E r1 \in Randoms, r2 \in Randoms : GenerateEntry(Undefined, r1, r2)

InitView ==
    /\ ImpactIdle
    /\ PredictIdle
    /\ ViewState
    /\ analysis = Undefined
    /\ gpc = "entry"
    /\ sim = Null
    /\ newPoints = <<>>
    /\ ReconIdle
    /\ ProcIdle

NextView ==
    GenerateFromAnalysis \/ GenerateFallback \/ GenerateFrame \/ GenerateReturn

SpecView == InitView /\ [][NextView]_vars

----------------------------------------------------------------------------
(* Properties of generateSimulatedData, under SpecView *)

Generated == gpc = "returned"

\* C20: after generateSimulatedData, if a summary was supplied the stored
\* verdict's isHit, partHit and impactPoint are the summary's isHit, partHit
\* and impact; if none was supplied the stored verdict is
\* checkWicketImpact(observed ++ predicted).
C20_Verdict ==
    Generated =>
        IF analysis # Undefined
        THEN /\ impact.isHit = analysis.isHit
             /\ impact.partHit = analysis.partHit
             /\ "impactPoint" \in DOMAIN impact
             /\ impact.impactPoint = analysis.impact
        ELSE impact = checkWicketImpact(viewPoints \o viewPredictions)

\* C20 witness: a summary was supplied whose verdict is not the one
\* checkWicketImpact gives on the generated trajectory.
C20_Witness ==
    /\ Generated
    /\ analysis # Undefined
    /\ impact.isHit # checkWicketImpact(viewPoints \o viewPredictions).isHit

\* A call with a summary has returned.
GeneratedFromSummary == Generated /\ analysis # Undefined

\* The samples at the summary's pitching distance, and the last sample.
AtPitch == { k \in 1..Len(viewPoints) : viewPoints[k].z = analysis.pitch.z }
LastSample == viewPoints[Len(viewPoints)]

\* C21: with a summary, the generated trajectory is on the ground at pitch.z
\* (at the sample there, or at the next one, one frame later) with lateral
\* position pitch.x, and at impact.z it has lateral position impact.x and
\* height impact.y.
C21_MatchesSummary ==
    GeneratedFromSummary =>
        /\ AtPitch # {}
        /\ \A k \in AtPitch :
               /\ viewPoints[k].x = analysis.pitch.x
               /\ \/ viewPoints[k].y = Num(0)
                  \/ k < Len(viewPoints) /\ viewPoints[k + 1].y = Num(0)
        /\ LastSample.z = analysis.impact.z
        /\ LastSample.x = analysis.impact.x
        /\ LastSample.y = analysis.impact.y

\* A step of the for loop of generateSimulatedData.
FrameStep == gpc = "loop" /\ gpc' = "loop" /\ sim'.i = sim.i + 1

\* y, vy and z as the step integrates them, before the bounce.
FrameY == Add(sim.y, Mul(sim.vy, sim.dt))
FrameVy == Sub(sim.vy, Mul(<<981, 100>>, sim.dt))
FrameZ == Add(sim.z, Mul(sim.vz, sim.dt))

\* C22 as stated: whenever a step's integrated y is negative, the height
\* becomes -y * 0.75 and the vertical velocity -vy * 0.75.
C22_SameBounceFormula ==
    [][(FrameStep /\ Lt(FrameY, Num(0))) =>
           /\ sim'.y = Mul(Neg(FrameY), <<3, 4>>)
           /\ sim'.vy = Mul(Neg(FrameVy), <<3, 4>>)]_vars

\* C22, amended: when a step's integrated y is negative and its z is short of
\* PITCH_LENGTH, the height becomes 0 and the vertical velocity -vy * 0.75;
\* in every other step the bounce changes neither, so that a negative y at or
\* past the stumps stays.
C22_GroundedBounce ==
    [][FrameStep =>
           IF Lt(FrameY, Num(0)) /\ Lt(FrameZ, <<503, 25>>)
           THEN /\ sim'.y = Num(0)
                /\ sim'.vy = Mul(Neg(FrameVy), <<3, 4>>)
           ELSE /\ sim'.y = FrameY
                /\ sim'.vy = FrameVy]_vars

\* C22 witness: the generated ball has just bounced: it is on the ground with
\* its velocity upward, short of the stumps.
C22_Witness ==
    /\ gpc = "loop"
    /\ sim.i >= 1
    /\ sim.y = Num(0)
    /\ Gt(sim.vy, Num(0))
    /\ Lt(sim.z, PITCH_LENGTH)

----------------------------------------------------------------------------
(* reconstruct3D *)

\* Normalized horizontal coordinate without the centring.
ReconNxUncentred(px, fw) == Mul(Div(px, fw), Num(2))

\* const nx = (pixelX / frameWidth) * 2 - 1
ReconNx(px, fw) == Sub(Mul(Div(px, fw), Num(2)), Num(1))

\* const ny = 1 - (pixelY / frameHeight) * 2
ReconNy(py, fh) == Sub(Num(1), Mul(Div(py, fh), Num(2)))

\* Longitudinal position for a delivery of one second.
ReconZWholeSecond(tm) == Mul(Div(tm, Num(1)), PITCH_LENGTH)

\* const z = (time / 0.5) * PITCH_LENGTH
ReconZ(tm) == Mul(Div(tm, <<1, 2>>), PITCH_LENGTH)

\* const x = nx * (z * 0.1)
ReconX(nx, z) == Mul(nx, Mul(z, <<1, 10>>))

\* const y = (ny + 0.5) * 2
ReconY(ny) == Mul(Add(ny, <<1, 2>>), Num(2))

\* reconstruct3D(pixelX, pixelY, frameWidth, frameHeight, time).
reconstruct3D(px, py, fw, fh, tm) ==
    [x |-> ReconX(ReconNx(px, fw), ReconZ(tm)),
     y |-> ReconY(ReconNy(py, fh)),
     z |-> ReconZ(tm),
     t |-> tm]

\* The call: the function has no other step than computing the sample it
\* returns.
Reconstruct3D ==
    /\ rpc = "entry"
    /\ sample' = reconstruct3D(pixelX, pixelY, frameWidth, frameHeight, time)
    /\ rpc' = "returned"
    /\ UNCHANGED <<pixelX, pixelY, frameWidth, frameHeight, time,
                   impactVars, predictVars, viewVars, procVars>>

\* Arguments of the calls: pixels inside the frame (corners, centre, a
\* quarter), outside it, and not finite; frame sizes, zero included; times
\* within the delivery, after it, negative and not finite.
PixelXs == {Num(0), Num(160), Num(320), Num(640), Num(800), NaN}
PixelYs == {Num(0), Num(120), Num(240), Num(480), <<1, 0>>}
FrameWidths == {Num(640), Num(0)}
FrameHeights == {Num(480), Num(0)}
Times == {Num(0), <<1, 8>>, <<1, 4>>, <<1, 2>>, <<-1, 10>>, NaN, <<1, 0>>}

InitReconstruct ==
    /\ ImpactIdle
    /\ PredictIdle
    /\ ViewIdle
    /\ pixelX \in PixelXs
    /\ pixelY \in PixelYs
    /\ frameWidth \in FrameWidths
    /\ frameHeight \in FrameHeights
    /\ time \in Times
    /\ rpc = "entry"
    /\ sample = Null
    /\ ProcIdle

NextReconstruct == Reconstruct3D

SpecReconstruct == InitReconstruct /\ [][NextReconstruct]_vars

----------------------------------------------------------------------------
(* Properties of reconstruct3D, under SpecReconstruct *)

Reconstructed == rpc = "returned"

\* An argument that is not finite, a frame size of zero or a negative time.
InvalidInput ==
    \/ \E a \in {pixelX, pixelY, frameWidth, frameHeight, time} : ~IsFinite(a)
    \/ frameWidth = Num(0)
    \/ frameHeight = Num(0)
    \/ Lt(time, Num(0))

\* C24: reconstruct3D returns no sample when an argument is not finite or
\* out of range, and no sample it returns has a coordinate that is NaN or
\* infinite.
C24_FailsFast ==
    Reconstructed =>
        /\ InvalidInput => sample = Null
        /\ sample # Null =>
               /\ IsFinite(sample.x)
               /\ IsFinite(sample.y)
               /\ IsFinite(sample.z)
               /\ IsFinite(sample.t)

\* C25: the returned t is the time passed in, and the returned z is linear in
\* a finite time over the nominal delivery of 0.5 s: PITCH_LENGTH * time / 0.5,
\* which is 0 at time 0 and PITCH_LENGTH at time 0.5, whatever the pixel
\* coordinates and the frame size are.
C25_LinearZ ==
    Reconstructed =>
        /\ sample.t = time
        /\ IsFinite(time) =>
               /\ sample.z = Div(Mul(PITCH_LENGTH, time), <<1, 2>>)
               /\ time = Num(0) => sample.z = Num(0)
               /\ time = <<1, 2>> => sample.z = PITCH_LENGTH
               /\ \A px \in PixelXs, py \in PixelYs,
                     fw \in FrameWidths, fh \in FrameHeights :
                      reconstruct3D(px, py, fw, fh, time).z = sample.z

\* C25 witness: a call in the middle of the delivery, with the pixel off the
\* centre, has returned half the pitch length.
C25_Witness ==
    /\ Reconstructed
    /\ time = <<1, 4>>
    /\ pixelX = Num(160)
    /\ pixelY = Num(120)
    /\ sample.z = Div(PITCH_LENGTH, Num(2))

\* The pixel is inside a frame of positive size, at a finite time.
InsideFrame ==
    /\ IsFinite(time)
    /\ IsFinite(frameWidth) /\ Gt(frameWidth, Num(0))
    /\ IsFinite(frameHeight) /\ Gt(frameHeight, Num(0))
    /\ Le(Num(0), pixelX) /\ Le(pixelX, frameWidth)
    /\ Le(Num(0), pixelY) /\ Le(pixelY, frameHeight)

\* The normalized coordinates are in [-1, 1] and the frame centre maps to 0.
Normalized ==
    LET nx == ReconNx(pixelX, frameWidth)
        ny == ReconNy(pixelY, frameHeight)
    IN  /\ Le(Num(-1), nx) /\ Le(nx, Num(1))
        /\ Le(Num(-1), ny) /\ Le(ny, Num(1))
        /\ pixelX = Div(frameWidth, Num(2)) => nx = Num(0)
        /\ pixelY = Div(frameHeight, Num(2)) => ny = Num(0)

\* C26 as stated: for a pixel inside the frame the normalized coordinates are
\* in [-1, 1] with the centre at 0, and both x and y are the normalized
\* offsets scaled by z: 0 at z = 0, and proportional to z for fixed pixels.
C26_ScaledByZ ==
    (Reconstructed /\ InsideFrame) =>
        /\ Normalized
        /\ sample.z = Num(0) => (sample.x = Num(0) /\ sample.y = Num(0))
        /\ \A tm \in {u \in Times : IsFinite(u)} :
               LET other == reconstruct3D(pixelX, pixelY, frameWidth,
                                          frameHeight, tm)
               IN  /\ Mul(other.x, sample.z) = Mul(sample.x, other.z)
                   /\ Mul(other.y, sample.z) = Mul(sample.y, other.z)

\* C26: for a pixel inside the frame the normalized coordinates are in
\* [-1, 1] with the centre at 0; x is the horizontal offset scaled by a tenth
\* of z, so it is 0 at z = 0 and proportional to z for a fixed pixel; y is
\* 2 * ny + 1, in [-1, 3], the same at every z.
C26_LateralScaledByZ ==
    (Reconstructed /\ InsideFrame) =>
        /\ Normalized
        /\ sample.x = Mul(ReconNx(pixelX, frameWidth), Div(sample.z, Num(10)))
        /\ sample.z = Num(0) => sample.x = Num(0)
        /\ sample.y = Add(Mul(Num(2), ReconNy(pixelY, frameHeight)), Num(1))
        /\ Le(Num(-1), sample.y) /\ Le(sample.y, Num(3))
        /\ \A tm \in {u \in Times : IsFinite(u)} :
               LET other == reconstruct3D(pixelX, pixelY, frameWidth,
                                          frameHeight, tm)
               IN  /\ Mul(other.x, sample.z) = Mul(sample.x, other.z)
                   /\ other.y = sample.y

\* C26 witness: a pixel at the top left corner of the frame, at the start of
\* the delivery, has returned x = 0 with y = 3.
C26_Witness ==
    /\ Reconstructed
    /\ InsideFrame
    /\ pixelX = Num(0)
    /\ pixelY = Num(0)
    /\ time = Num(0)
    /\ sample.x = Num(0)
    /\ sample.y = Num(3)

----------------------------------------------------------------------------
(* The ground, under SpecPredict *)

\* A history of two or more finite samples with strictly increasing times.
FiniteSamples(pts) ==
    \A k \in 1..Len(pts) :
        /\ IsFinite(pts[k].x) /\ IsFinite(pts[k].y)
        /\ IsFinite(pts[k].z) /\ IsFinite(pts[k].t)
IncreasingTimes(pts) ==
    \A k \in 1..(Len(pts) - 1) : Lt(pts[k].t, pts[k + 1].t)
TrackedHistory ==
    /\ Len(history) >= 2
    /\ FiniteSamples(history)
    /\ IncreasingTimes(history)
    /\ Gt(step, Num(0))

\* C27: for a history of two or more finite samples with strictly increasing
\* times and a step above 0, every sample predictTrajectory pushes, and so
\* every sample it returns, has y >= 0, also when the last sample is below
\* the ground or the ball is going up.
C27_AboveGround ==
    TrackedHistory =>
        \A k \in 1..Len(predictions) : Ge(predictions[k].y, Num(0))

\* C27 witness: a call on a history whose last sample is below the ground has
\* returned samples, the first of them pushed by the bounce branch.
C27_Witness ==
    /\ PredictReturned
    /\ TrackedHistory
    /\ Lt(LastPoint.y, Num(0))
    /\ Len(predictions) >= 2
    /\ Len(bounces) >= 1
    /\ bounces[1].k = 1
    /\ Gt(predictions[1].y, Num(0))

----------------------------------------------------------------------------
(* The App's handlers: onDrop, resetAnalysis, startProcessing *)

\* The most calls of startProcessing in a behaviour.
MaxRuns == 2

\* The messages of the loop over steps.
steps ==
    << "Extracting frames...",
       "Detecting ball candidates...",
       "Applying Kalman filter tracking...",
       "Calibrating camera perspective...",
       "Reconstructing 3D coordinates...",
       "Finalizing trajectory model..." >>

\* The setters a handler calls before it returns or awaits are batched: the
\* state after the render is the last value written.
LastWrite(writes) == writes[Len(writes)]

\* No synchronous code is running: a handler can be invoked, a promise can
\* settle, a timer can fire.
Quiet == spc # "generate"

\* The values resetAnalysis writes to the state the model has.  (progress,
\* isPlaying and the snapshots are not part of the model.)
ResetWrites ==
    [points |-> <<>>, predictions |-> <<>>, impact |-> Null,
     speed |-> NullNumber, processingStep |-> "", decisionState |-> "none"]

\* onDrop with a file: the dropzone is rendered while there is no video.
OnDrop ==
    /\ Quiet
    /\ videoUrl = Null
    /\ videoFile' = [name |-> "delivery.mp4"]
    /\ videoUrl' = [blob |-> "delivery.mp4"]
    /\ viewPoints' = ResetWrites.points
    /\ viewPredictions' = ResetWrites.predictions
    /\ impact' = ResetWrites.impact
    /\ speed' = ResetWrites.speed
    /\ processingStep' = ResetWrites.processingStep
    /\ decisionState' = ResetWrites.decisionState
    /\ lastHandler' = "reset"
    /\ UNCHANGED <<isProcessing, spc, pending, stepIdx, runs,
                   analysis, gpc, sim, newPoints,
                   impactVars, predictVars, reconVars>>

\* resetAnalysis from the reset button, which is rendered with the video and
\* is never disabled.
ResetAnalysis ==
    /\ Quiet
    /\ videoUrl # Null
    /\ viewPoints' = ResetWrites.points
    /\ viewPredictions' = ResetWrites.predictions
    /\ impact' = ResetWrites.impact
    /\ speed' = ResetWrites.speed
    /\ processingStep' = ResetWrites.processingStep
    /\ decisionState' = ResetWrites.decisionState
    /\ lastHandler' = "reset"
    /\ UNCHANGED <<videoFile, videoUrl, isProcessing, spc, pending, stepIdx,
                   runs, analysis, gpc, sim, newPoints,
                   impactVars, predictVars, reconVars>>

\* startProcessing up to its first await, from one of its two buttons, both
\* disabled while isProcessing.  It writes isProcessing, then decisionState,
\* then what resetAnalysis writes, then processingStep, and starts reading
\* the file.
StartProcessing ==
    /\ Quiet
    /\ videoUrl # Null
    /\ videoFile # Null
    /\ ~isProcessing
    /\ runs < MaxRuns
    /\ isProcessing' = TRUE
    /\ decisionState' = LastWrite(<<"analyzing", ResetWrites.decisionState>>)
    /\ viewPoints' = ResetWrites.points
    /\ viewPredictions' = ResetWrites.predictions
    /\ impact' = ResetWrites.impact
    /\ speed' = ResetWrites.speed
    /\ processingStep' = LastWrite(<<ResetWrites.processingStep,
                                     "Analyzing video with Gemini AI...">>)
    /\ spc' = "reading"
    /\ pending' = Undefined
    /\ stepIdx' = 0
    /\ lastHandler' = "start"
    /\ runs' = runs + 1
    /\ UNCHANGED <<videoFile, videoUrl, analysis, gpc, sim, newPoints,
                   impactVars, predictVars, reconVars>>

\* reader.onload: base64Promise resolves and analyzeCricketVideo is called.
ReadLoaded ==
    /\ spc = "reading"
    /\ spc' = "analysis"
    /\ UNCHANGED <<videoFile, videoUrl, isProcessing, processingStep,
                   decisionState, pending, stepIdx, lastHandler, runs,
                   viewVars, impactVars, predictVars, reconVars>>

\* The reader fails: it fires error, for which there is no handler, and
\* base64Promise never settles.
ReadFailed ==
    /\ spc = "reading"
    /\ spc' = "unread"
    /\ UNCHANGED <<videoFile, videoUrl, isProcessing, processingStep,
                   decisionState, pending, stepIdx, lastHandler, runs,
                   viewVars, impactVars, predictVars, reconVars>>

\* Summaries the external analysis resolves with here.
ProcAnalyses ==
    { a \in Analyses :
        /\ a.partHit = "middle"
        /\ a.speedKmh = <<4527, 50>>
        /\ a.pitch = [x |-> Num(0), z |-> <<503, 50>>]
        /\ a.impact.x = Num(0) }

\* analyzeCricketVideo resolves: the loop over steps shows its first message
\* and waits 400 ms.
AnalysisResolved ==
    /\ spc = "analysis"
    /\ \E a \in ProcAnalyses : pending' = a
    /\ processingStep' = steps[1]
    /\ stepIdx' = 1
    /\ spc' = "steps"
    /\ UNCHANGED <<videoFile, videoUrl, isProcessing, decisionState,
                   lastHandler, runs,
                   viewVars, impactVars, predictVars, reconVars>>

\* analyzeCricketVideo rejects: the catch block shows its message and waits
\* 1000 ms.
AnalysisRejected ==
    /\ spc = "analysis"
    /\ processingStep' = "Analysis failed. Using fallback..."
    /\ spc' = "failed"
    /\ UNCHANGED <<videoFile, videoUrl, isProcessing, decisionState, pending,
                   stepIdx, lastHandler, runs,
                   viewVars, impactVars, predictVars, reconVars>>

\* A 400 ms timer fires with messages left: the next one is shown.
StepTimer ==
    /\ spc = "steps"
    /\ stepIdx < Len(steps)
    /\ processingStep' = steps[stepIdx + 1]
    /\ stepIdx' = stepIdx + 1
    /\ UNCHANGED <<videoFile, videoUrl, isProcessing, decisionState, spc,
                   pending, lastHandler, runs,
                   viewVars, impactVars, predictVars, reconVars>>

\* The last 400 ms timer fires: setIsProcessing(false) and the call of
\* generateSimulatedData(analysis) begins.
ProcessingDone ==
    /\ spc = "steps"
    /\ stepIdx = Len(steps)
    /\ isProcessing' = FALSE
    /\ spc' = "generate"
    /\ gpc' = "entry"
    /\ UNCHANGED <<videoFile, videoUrl, processingStep, decisionState,
                   pending, stepIdx, lastHandler, runs,
                   viewPoints, viewPredictions, impact, speed, analysis, sim,
                   newPoints, impactVars, predictVars, reconVars>>

\* The 1000 ms timer of the catch block fires: setIsProcessing(false) and
\* the call of generateSimulatedData() begins.
FallbackTimer ==
    /\ spc = "failed"
    /\ isProcessing' = FALSE
    /\ spc' = "generate"
    /\ gpc' = "entry"
    /\ UNCHANGED <<videoFile, videoUrl, processingStep, decisionState,
                   pending, stepIdx, lastHandler, runs,
                   viewPoints, viewPredictions, impact, speed, analysis, sim,
                   newPoints, impactVars, predictVars, reconVars>>

\* Values of Math.random() in the calls made by startProcessing.
FallbackRandoms == { <<1, 4>>, <<3, 4>> }

\* generateSimulatedData called by startProcessing, with the summary or
\* without one.
GenerateCalled ==
    /\ spc = "generate"
    /\ IF pending # Undefined
       THEN GenerateEntry(pending, Num(0), Num(0))
       ELSE \E r1 \in FallbackRandoms, r2 \in FallbackRandoms :
                GenerateEntry(Undefined, r1, r2)

\* generateSimulatedData has returned: setDecisionState('verdict'), and
\* startProcessing ends.
ProcessingVerdict ==
    /\ spc = "generate"
    /\ gpc = "returned"
    /\ decisionState' = "verdict"
    /\ spc' = "idle"
    /\ gpc' = "idle"
    /\ analysis' = Undefined
    /\ sim' = Null
    /\ newPoints' = <<>>
    /\ UNCHANGED <<videoFile, videoUrl, isProcessing, processingStep,
                   pending, stepIdx, lastHandler, runs,
                   viewPoints, viewPredictions, impact, speed,
                   impactVars, predictVars, reconVars>>

InitProcessing ==
    /\ ImpactIdle
    /\ PredictIdle
    /\ ViewIdle
    /\ ReconIdle
    /\ ProcIdle

NextProcessing ==
    \/ OnDrop
    \/ ResetAnalysis
    \/ StartProcessing
    \/ ReadLoaded
    \/ ReadFailed
    \/ AnalysisResolved
    \/ AnalysisRejected
    \/ StepTimer
    \/ ProcessingDone
    \/ FallbackTimer
    \/ GenerateCalled
    \/ GenerateFrame
    \/ GenerateReturn
    \/ ProcessingVerdict

SpecProcessing == InitProcessing /\ [][NextProcessing]_vars

\* What goes on without the user while startProcessing awaits: the reader
\* and the external call settle, timers fire, and the continuation that a
\* returned generateSimulatedData leaves is run.  At most one of these is
\* enabled in a state.
Settle ==
    \/ ReadLoaded
    \/ ReadFailed
    \/ AnalysisResolved
    \/ AnalysisRejected
    \/ StepTimer
    \/ ProcessingDone
    \/ FallbackTimer
    \/ ProcessingVerdict

\* The synchronous steps of generateSimulatedData, and the states in which
\* one of them is enabled: the call has begun and has not returned.
Generating == GenerateCalled \/ GenerateFrame \/ GenerateReturn
InGenerate == spc = "generate" /\ gpc \in {"entry", "loop"}

\* The event loop does not stop and synchronous code runs on; the user is
\* under no obligation.  The second conjunct is weak fairness of Generating
\* with its enabling condition written out.
ProcessingFairness ==
    /\ WF_vars(Settle)
    /\ \/ []<>(~InGenerate)
       \/ []<><<Generating>>_vars

SpecProcessingFair == SpecProcessing /\ ProcessingFairness

----------------------------------------------------------------------------
(* Properties of the handlers, under SpecProcessing and SpecProcessingFair *)

\* startProcessing has ended with a verdict on display.
EndedWithVerdict ==
    /\ ~isProcessing
    /\ decisionState = "verdict"
    /\ Len(viewPoints) = frames + 1
    /\ impact # Null

\* C28: every call of startProcessing with a video loaded, which sets
\* isProcessing, is followed by a state with isProcessing false, decisionState
\* "verdict", 61 points and an impact that is not null, whether the external
\* analysis resolves or rejects; isProcessing does not stay true forever.
C28_EventuallyVerdict == isProcessing ~> EndedWithVerdict

\* C29: after resetAnalysis has run and until startProcessing is called
\* again, points and predictions are empty, impact and speed are null and
\* decisionState is "none", also when an analysis was in flight at the reset
\* and completes after it.
C29_ResetHolds ==
    (Quiet /\ lastHandler = "reset") =>
        /\ ViewState
        /\ decisionState = "none"

\* C30: while isProcessing is true decisionState is "analyzing"; it is "none"
\* only before the first call of startProcessing or after a reset, and
\* "verdict" only once a call has completed and none is in flight.
C30_AnalyzingInFlight ==
    Quiet =>
        /\ isProcessing => decisionState = "analyzing"
        /\ decisionState = "none" => (runs = 0 \/ lastHandler = "reset")
        /\ decisionState = "verdict" =>
               (runs >= 1 /\ ~isProcessing /\ spc = "idle")

====
